---- MODULE Spec2Model ----
(***************************************************************************)
(* A model of bqcli: the BigQuery completer of bq_helper.py (the scanner,  *)
(* the context classifier, the candidate generators and the alias          *)
(* resolver) and the read-validate-confirm-execute loop of bqcli.py.       *)
(*                                                                         *)
(* A Python str is a sequence of one-character strings; the regular        *)
(* expressions of the source are written out as the scans they perform.    *)
(***************************************************************************)
EXTENDS Integers, Sequences, FiniteSets, TLC

\* ------------------------------------------------------------------------
\* Characters and str methods
\* ------------------------------------------------------------------------

LowerChars == <<"a", "b", "c", "d", "e", "f", "g", "h", "i", "j", "k", "l", "m", "n", "o", "p", "q", "r", "s", "t", "u", "v", "w", "x", "y", "z">>

UpperChars == <<"A", "B", "C", "D", "E", "F", "G", "H", "I", "J", "K", "L", "M", "N", "O", "P", "Q", "R", "S", "T", "U", "V", "W", "X", "Y", "Z">>

DigitChars == <<"0", "1", "2", "3", "4", "5", "6", "7", "8", "9">>

Range(s) == {s[i] : i \in DOMAIN s}

LowerSet == Range(LowerChars)

UpperSet == Range(UpperChars)

\* \w of the re module (ASCII letters, digits, underscore)
WordSet == LowerSet \cup UpperSet \cup Range(DigitChars) \cup {"_"}

\* \s of the re module, str.isspace, str.strip
SpaceSet == {" ", "\n", "\t", "\r"}

IsWordChar(c) == c \in WordSet

IsSpace(c) == c \in SpaceSet

UpperMap == [c \in LowerSet |-> UpperChars[CHOOSE i \in DOMAIN LowerChars : LowerChars[i] = c]]

LowerMap == [c \in UpperSet |-> LowerChars[CHOOSE i \in DOMAIN UpperChars : UpperChars[i] = c]]

\* str.upper
upper(s) == [i \in DOMAIN s |-> IF s[i] \in LowerSet THEN UpperMap[s[i]] ELSE s[i]]

\* str.lower
lower(s) == [i \in DOMAIN s |-> IF s[i] \in UpperSet THEN LowerMap[s[i]] ELSE s[i]]

\* s[i:] of Python with the 1-based index i
From(s, i) == SubSeq(s, i, Len(s))

\* str.startswith
startswith(s, p) == Len(p) <= Len(s) /\ SubSeq(s, 1, Len(p)) = p

\* str.endswith
endswith(s, p) == Len(p) <= Len(s) /\ SubSeq(s, Len(s) - Len(p) + 1, Len(s)) = p

\* whether p occurs in s at the 1-based index i
At(s, i, p) == i >= 1 /\ i + Len(p) - 1 <= Len(s) /\ SubSeq(s, i, i + Len(p) - 1) = p

\* the Python test (p in s) on strs
contains(s, p) == \E i \in 1..(Len(s) + 1) : At(s, i, p)

\* str.replace(c, '') for a one-character c
RECURSIVE remove_char(_, _)
remove_char(s, c) ==
  IF s = <<>> THEN <<>>
  ELSE IF Head(s) = c THEN remove_char(Tail(s), c)
  ELSE <<Head(s)>> \o remove_char(Tail(s), c)

\* str.strip
strip(s) ==
  LET keep == {i \in DOMAIN s : ~IsSpace(s[i])}
  IN IF keep = {} THEN <<>>
     ELSE SubSeq(s, CHOOSE i \in keep : \A j \in keep : i <= j,
                    CHOOSE i \in keep : \A j \in keep : i >= j)

\* str.split(c) for a one-character c: the parts between the separators
RECURSIVE split_from(_, _, _, _)
split_from(s, c, i, cur) ==
  IF i > Len(s) THEN <<cur>>
  ELSE IF s[i] = c THEN <<cur>> \o split_from(s, c, i + 1, <<>>)
  ELSE split_from(s, c, i + 1, Append(cur, s[i]))

split(s, c) == split_from(s, c, 1, <<>>)

\* the list comprehension [f(x) for x in xs if x] over strs
SelectNonEmpty(xs) == SelectSeq(xs, LAMBDA x : x # <<>>)

\* ------------------------------------------------------------------------
\* The scanner: the three regular expressions of get_last_token and
\* is_in_column_context
\* ------------------------------------------------------------------------

\* the index of the first "\n" at or after i, Len(s) + 1 when there is none
RECURSIVE EndOfLine(_, _)
EndOfLine(s, i) ==
  IF i > Len(s) \/ s[i] = "\n" THEN i ELSE EndOfLine(s, i + 1)

\* re.sub(r'--.*', '', text): '.' does not match a newline
RECURSIVE remove_comments_from(_, _)
remove_comments_from(s, i) ==
  IF i > Len(s) THEN <<>>
  ELSE IF At(s, i, <<"-", "-">>) THEN remove_comments_from(s, EndOfLine(s, i))
  ELSE <<s[i]>> \o remove_comments_from(s, i + 1)

remove_comments(text) == remove_comments_from(text, 1)

\* The character U+0060 (the quote of BigQuery identifiers), which SANY does not
\* read inside a string literal
BACKTICK == "[backtick]"

QuoteSet == {"'", "\"", BACKTICK}

\* The body (?:\\.|[^\\])*?\1 from index k for the opening quote q: the index
\* of the closing quote, 0 when the match fails. The lazy star tries \1
\* first; a backslash can only start \\. (whose '.' rejects a newline
\* unless DOTALL), any other character only matches [^\\].
RECURSIVE string_end(_, _, _, _)
string_end(s, k, q, dotall) ==
  IF k > Len(s) THEN 0
  ELSE IF s[k] = q THEN k
  ELSE IF s[k] = "\\"
       THEN IF k + 1 > Len(s) \/ (~dotall /\ s[k + 1] = "\n") THEN 0
            ELSE string_end(s, k + 2, q, dotall)
  ELSE string_end(s, k + 1, q, dotall)

\* re.sub(r"(['\"BACKTICK])(?:\\.|[^\\])*?\1", '', text, flags): the leftmost
\* non-overlapping matches are removed
RECURSIVE remove_strings_from(_, _, _)
remove_strings_from(s, i, dotall) ==
  IF i > Len(s) THEN <<>>
  ELSE LET e == IF s[i] \in QuoteSet THEN string_end(s, i + 1, s[i], dotall) ELSE 0
       IN IF e > 0 THEN remove_strings_from(s, e + 1, dotall)
          ELSE <<s[i]>> \o remove_strings_from(s, i + 1, dotall)

remove_strings(text, dotall) == remove_strings_from(text, 1, dotall)

\* re.findall(r'\b\w+\b', text): the maximal runs of word characters
RECURSIVE findall_words_from(_, _, _)
findall_words_from(s, i, cur) ==
  IF i > Len(s) THEN (IF cur = <<>> THEN <<>> ELSE <<cur>>)
  ELSE IF IsWordChar(s[i]) THEN findall_words_from(s, i + 1, Append(cur, s[i]))
  ELSE (IF cur = <<>> THEN <<>> ELSE <<cur>>) \o findall_words_from(s, i + 1, <<>>)

findall_words(text) == findall_words_from(text, 1, <<>>)

\* the text get_last_token tokenizes
last_token_text(text) == remove_strings(remove_comments(text), FALSE)

get_last_token(text) ==
  LET tokens == findall_words(last_token_text(text))
  IN IF tokens # <<>> THEN tokens[Len(tokens)] ELSE <<>>

\* Document.get_word_before_cursor(WORD=True) of prompt_toolkit: empty when
\* the text is empty or ends in whitespace, else the last run of
\* non-whitespace characters
RECURSIVE word_start(_, _)
word_start(s, i) ==
  IF i = 0 \/ IsSpace(s[i]) THEN i + 1 ELSE word_start(s, i - 1)

get_word_before_cursor(text) ==
  IF text = <<>> \/ IsSpace(text[Len(text)]) THEN <<>>
  ELSE From(text, word_start(text, Len(text)))

\* ------------------------------------------------------------------------
\* The catalog behind the client (google.cloud.bigquery, outside src/)
\* ------------------------------------------------------------------------

\* A client is the catalog service as one request sees it: healthy, or
\* failing after it has delivered client.after entries of a listing (a listing is
\* a lazy page iterator: it can raise before its first entry or between two
\* pages; client.get_table is one call and delivers all or nothing).
Healthy == [fails |-> FALSE, after |-> 0]

Failing(n) == [fails |-> TRUE, after |-> n]

CatalogProjects == <<<<"p">>, <<"q">>>>

CatalogDatasets(project_id) ==
  IF project_id = <<"p">> THEN <<<<"d">>, <<"e">>>> ELSE <<>>

CatalogTables(project_id, dataset_id) ==
  IF project_id = <<"p">> /\ dataset_id = <<"d">> THEN <<<<"t">>>> ELSE <<>>

CatalogColumns(project_id, dataset_id, table_id) ==
  IF project_id = <<"p">> /\ dataset_id = <<"d">> /\ table_id = <<"t">>
  THEN <<<<"n", "a">>, <<"x">>>> ELSE <<>>

\* whether the catalog holds the named entity (NotFound is raised otherwise)
CatalogHas(project_id, dataset_id, table_id) ==
  /\ \E i \in DOMAIN CatalogProjects : CatalogProjects[i] = project_id
  /\ dataset_id # <<>> =>
       \E i \in DOMAIN CatalogDatasets(project_id) :
          CatalogDatasets(project_id)[i] = dataset_id
  /\ table_id # <<>> =>
       \E i \in DOMAIN CatalogTables(project_id, dataset_id) :
          CatalogTables(project_id, dataset_id)[i] = table_id

Min(a, b) == IF a < b THEN a ELSE b

\* What iterating a listing does: the entries it yields, and whether it then
\* raises. A listing of an entity the catalog does not hold raises at once.
Listing(client, found, all) ==
  IF ~found THEN [items |-> <<>>, raises |-> TRUE]
  ELSE IF client.fails
       THEN [items |-> SubSeq(all, 1, Min(client.after, Len(all))), raises |-> TRUE]
  ELSE [items |-> all, raises |-> FALSE]

list_projects(client) == Listing(client, TRUE, CatalogProjects)

list_datasets(client, project_id) ==
  Listing(client, CatalogHas(project_id, <<>>, <<>>), CatalogDatasets(project_id))

list_tables(client, project_id, dataset_id) ==
  Listing(client, dataset_id # <<>> /\ CatalogHas(project_id, dataset_id, <<>>),
          CatalogTables(project_id, dataset_id))

\* client.get_table(...).schema: one call
get_table_schema(client, project_id, dataset_id, table_id) ==
  IF client.fails \/ dataset_id = <<>> \/ table_id = <<>>
     \/ ~CatalogHas(project_id, dataset_id, table_id)
  THEN [items |-> <<>>, raises |-> TRUE]
  ELSE [items |-> CatalogColumns(project_id, dataset_id, table_id), raises |-> FALSE]

\* ------------------------------------------------------------------------
\* The metadata accessors. A Python call either returns a value or raises:
\* [exc |-> FALSE, val |-> v] or [exc |-> TRUE, val |-> <<>>].
\* ------------------------------------------------------------------------

Return(v) == [exc |-> FALSE, val |-> v]

Raise == [exc |-> TRUE, val |-> <<>>]

\* for x in listing: xs.append(x) under try/except Exception: the entries
\* appended before the exception stay in xs, which is returned
get_projects(client) == Return(list_projects(client).items)

\* get_datasets without its try/except
get_datasets_unguarded(client, project_id) ==
  LET it == list_datasets(client, strip(remove_char(project_id, BACKTICK)))
  IN IF it.raises THEN Raise ELSE Return(it.items)

get_datasets(client, project_id) ==
  Return(list_datasets(client, strip(remove_char(project_id, BACKTICK))).items)

get_tables(client, project_id, dataset_id) ==
  Return(list_tables(client, strip(remove_char(project_id, BACKTICK)),
                     strip(remove_char(dataset_id, BACKTICK))).items)

\* columns is assigned only when get_table returned
get_columns(client, project_id, dataset_id, table_id) ==
  LET r == get_table_schema(client, project_id, dataset_id, table_id)
  IN Return(IF r.raises THEN <<>> ELSE r.items)

\* ------------------------------------------------------------------------
\* The candidate generators
\* ------------------------------------------------------------------------

Completion(text, start_position) == [text |-> text, start_position |-> start_position]

\* f'BACKTICK{a}BACKTICK'
Quoted(a) == <<BACKTICK>> \o a \o <<BACKTICK>>

\* the entries of the listing r as candidates, each quoted after prefix and
\* a dot, or the exception r raised
Candidates(r, prefix, word) ==
  IF r.exc THEN Raise
  ELSE Return([i \in DOMAIN r.val |->
                 Completion(prefix \o <<".">> \o Quoted(r.val[i]), -Len(word))])

DatasetCandidates(client, project_id, word) ==
  Candidates(get_datasets(client, project_id), Quoted(project_id), word)

TableCandidates(client, project_id, dataset_id, word) ==
  Candidates(get_tables(client, project_id, dataset_id),
             Quoted(project_id) \o <<".">> \o Quoted(dataset_id), word)

\* [part.strip() for part in parts]
StripAll(parts) == [i \in DOMAIN parts |-> strip(parts[i])]

\* [part.replace(BACKTICK, '').strip() for part in parts]
CleanAll(parts) == [i \in DOMAIN parts |-> strip(remove_char(parts[i], BACKTICK))]

\* for project in self.projects: if project.startswith(word_clean): yield
\* project candidates spanning the cleaned word instead of the typed word
ProjectCandidates_clean_span(projects, word_clean, word) ==
  LET ps == SelectSeq(projects, LAMBDA p : startswith(p, word_clean))
  IN Return([i \in DOMAIN ps |-> Completion(Quoted(ps[i]), -Len(word_clean))])

ProjectCandidates(projects, word_clean, word) ==
  LET ps == SelectSeq(projects, LAMBDA p : startswith(p, word_clean))
  IN Return([i \in DOMAIN ps |-> Completion(Quoted(ps[i]), -Len(word))])

get_table_completions(client, projects, word) ==
  LET word_clean0 == remove_char(word, BACKTICK)
      trailing_dot == endswith(word_clean0, <<".">>)
      word_clean == IF trailing_dot THEN SubSeq(word_clean0, 1, Len(word_clean0) - 1)
                    ELSE word_clean0
      parts0 == split(word_clean, ".") \o (IF trailing_dot THEN <<<<>>>> ELSE <<>>)
      parts == SelectNonEmpty(StripAll(parts0))
  IN IF Len(parts) = 0
     THEN ProjectCandidates(projects, word_clean, word)
     ELSE IF Len(parts) = 1 THEN DatasetCandidates(client, parts[1], word)
     ELSE IF Len(parts) = 2 THEN TableCandidates(client, parts[1], parts[2], word)
     ELSE Return(<<>>)

\* re.split(r'\.BACKTICK?|BACKTICK?\.', word): at a '.', the separator is the
\* dot and a backtick after it; at a backtick before a '.', it is both
RECURSIVE split_identifier_from(_, _, _)
split_identifier_from(s, i, cur) ==
  IF i > Len(s) THEN <<cur>>
  ELSE IF s[i] = "."
       THEN <<cur>> \o split_identifier_from(s,
                         IF i < Len(s) /\ s[i + 1] = BACKTICK THEN i + 2 ELSE i + 1, <<>>)
  ELSE IF s[i] = BACKTICK /\ i < Len(s) /\ s[i + 1] = "."
       THEN <<cur>> \o split_identifier_from(s, i + 2, <<>>)
  ELSE split_identifier_from(s, i + 1, Append(cur, s[i]))

get_partial_identifier_completions(client, word) ==
  LET parts == CleanAll(split_identifier_from(word, 1, <<>>))
               \o (IF endswith(word, <<".">>) THEN <<<<>>>> ELSE <<>>)
  IN IF Len(parts) = 1 THEN DatasetCandidates(client, parts[1], word)
     ELSE IF Len(parts) = 2
          THEN IF parts[2] = <<>> THEN DatasetCandidates(client, parts[1], word)
               ELSE TableCandidates(client, parts[1], parts[2], word)
     ELSE IF Len(parts) = 3
          THEN IF parts[3] = <<>> THEN TableCandidates(client, parts[1], parts[2], word)
               ELSE Return(<<>>)
     ELSE Return(<<>>)

\* ------------------------------------------------------------------------
\* The alias resolver
\* ------------------------------------------------------------------------

\* the first index at or after i that holds no whitespace (\s+ and \s*)
RECURSIVE SkipSpaces(_, _)
SkipSpaces(s, i) ==
  IF i <= Len(s) /\ IsSpace(s[i]) THEN SkipSpaces(s, i + 1) ELSE i

\* the first index at or after i that holds no word character (\w+)
RECURSIVE WordEnd(_, _)
WordEnd(s, i) ==
  IF i <= Len(s) /\ IsWordChar(s[i]) THEN WordEnd(s, i + 1) ELSE i

\* the index of the first BACKTICK at or after i, 0 when there is none
RECURSIVE NextBacktick(_, _)
NextBacktick(s, i) ==
  IF i > Len(s) THEN 0 ELSE IF s[i] = BACKTICK THEN i ELSE NextBacktick(s, i + 1)

\* (?:BACKTICK[^BACKTICK]+BACKTICK|\w+) at i: the index after the segment, 0
\* when none matches. A shorter \w+ is always followed by a word character,
\* which nothing after a segment accepts, so the longest one decides.
SegmentEnd(s, i) ==
  IF i > Len(s) THEN 0
  ELSE IF s[i] = BACKTICK
       THEN LET j == NextBacktick(s, i + 1) IN IF j > i + 1 THEN j + 1 ELSE 0
  ELSE IF IsWordChar(s[i]) THEN WordEnd(s, i)
  ELSE 0

\* (?=\s|,|$) at i, with re.MULTILINE
Lookahead(s, i) == i > Len(s) \/ IsSpace(s[i]) \/ s[i] = ","

\* (?:\s+AS\s+(\w+))? then the lookahead, at i (re.IGNORECASE): the bounds
\* of the alias and the index after it; alias_from = 0 when the group does
\* not take part in a match
AsClause(s, i) ==
  LET a == SkipSpaces(s, i)
      w == SkipSpaces(s, a + 2)
      e == WordEnd(s, w)
  IN IF a > i /\ At(upper(s), a, <<"A", "S">>) /\ w > a + 2 /\ e > w /\ Lookahead(s, e)
     THEN [alias_from |-> w, end |-> e]
     ELSE [alias_from |-> 0, end |-> i]

\* What follows the first segment, the path read so far ending before e:
\* the lazy (?:\.segment)*? first tries the rest of the pattern (the AS
\* group, greedy, then without it), and takes one more segment only when
\* that fails. [ok, path_end, alias_from, end].
RECURSIVE PathTail(_, _)
PathTail(s, e) ==
  LET as == AsClause(s, e)
      more == IF e <= Len(s) /\ s[e] = "." THEN SegmentEnd(s, e + 1) ELSE 0
  IN IF as.alias_from > 0
     THEN [ok |-> TRUE, path_end |-> e, alias_from |-> as.alias_from, end |-> as.end]
     ELSE IF Lookahead(s, e)
     THEN [ok |-> TRUE, path_end |-> e, alias_from |-> 0, end |-> e]
     ELSE IF more > 0 THEN PathTail(s, more)
     ELSE [ok |-> FALSE, path_end |-> e, alias_from |-> 0, end |-> e]

\* the pattern of extract_table_aliases tried at index i
AliasMatchAt(s, i) ==
  LET u == upper(SubSeq(s, i, Min(i + 3, Len(s))))
      p == SkipSpaces(s, i + 4)
      e == SegmentEnd(s, p)
      t == PathTail(s, e)
  IN IF (u = <<"F", "R", "O", "M">> \/ u = <<"J", "O", "I", "N">>) /\ p > i + 4 /\ e > 0 /\ t.ok
     THEN [ok |-> TRUE, start |-> i, end |-> t.end, path_end |-> t.path_end,
           table_name |-> strip(SubSeq(s, p, t.path_end - 1)),
           alias |-> IF t.alias_from > 0
                     THEN strip(SubSeq(s, t.alias_from, t.end - 1)) ELSE <<>>]
     ELSE [ok |-> FALSE, start |-> i, end |-> i, path_end |-> i,
           table_name |-> <<>>, alias |-> <<>>]

\* pattern.finditer(text): the leftmost non-overlapping matches
RECURSIVE alias_matches_from(_, _)
alias_matches_from(s, i) ==
  IF i > Len(s) THEN <<>>
  ELSE LET m == AliasMatchAt(s, i)
       IN IF m.ok THEN <<m>> \o alias_matches_from(s, m.end)
          ELSE alias_matches_from(s, i + 1)

alias_matches(text) == alias_matches_from(text, 1)

\* The list of (table_name, alias); the alias None is the empty str, which
\* (\w+) never captures and which the caller tests the same way.
extract_table_aliases(text) ==
  LET ms == alias_matches(text)
  IN [i \in DOMAIN ms |-> [table_name |-> ms[i].table_name, alias |-> ms[i].alias]]

\* ------------------------------------------------------------------------
\* Column candidates
\* ------------------------------------------------------------------------

\* the columns one (table_full_name, alias) adds to the list
\* the columns of a binding without the alias prefix
AliasColumns_unprefixed(client, binding) ==
  LET parts == CleanAll(split(binding.table_name, "."))
      r == get_columns(client, parts[1], parts[2], parts[3])
  IN IF Len(parts) # 3 THEN Return(<<>>)
     ELSE IF r.exc THEN Raise
     ELSE Return(r.val)

AliasColumns(client, binding) ==
  LET parts == CleanAll(split(binding.table_name, "."))
      r == get_columns(client, parts[1], parts[2], parts[3])
  IN IF Len(parts) # 3 THEN Return(<<>>)
     ELSE IF r.exc THEN Raise
     ELSE Return(IF binding.alias # <<>>
                 THEN [i \in DOMAIN r.val |-> binding.alias \o <<".">> \o r.val[i]]
                 ELSE r.val)

\* the list columns before duplicates are removed
RECURSIVE CollectColumns(_, _, _)
CollectColumns(client, table_aliases, i) ==
  IF i > Len(table_aliases) THEN Return(<<>>)
  ELSE LET c == AliasColumns(client, table_aliases[i])
           rest == CollectColumns(client, table_aliases, i + 1)
       IN IF c.exc \/ rest.exc THEN Raise ELSE Return(c.val \o rest.val)

\* every order in which a Python set of these elements may be iterated
Orderings(S) ==
  {f \in [1..Cardinality(S) -> S] : \A i, j \in 1..Cardinality(S) : i # j => f[i] # f[j]}

\* The possible results: list(set(columns)) has no fixed order.
get_column_completions(client, word, text) ==
  LET r == CollectColumns(client, extract_table_aliases(text), 1)
      matching == {c \in Range(r.val) : startswith(c, word)}
  IN IF r.exc THEN {Raise}
     ELSE {Return([i \in DOMAIN o |-> Completion(o[i], -Len(word))]) :
             o \in Orderings(matching)}

\* ------------------------------------------------------------------------
\* The context classifier
\* ------------------------------------------------------------------------

column_context_keywords ==
  {<<"S", "E", "L", "E", "C", "T">>, <<"W", "H", "E", "R", "E">>, <<"A", "N", "D">>, <<"O", "R">>, <<"O", "N">>, <<"B", "Y">>, <<"H", "A", "V", "I", "N", "G">>, <<"G", "R", "O", "U", "P">>,
   <<"O", "R", "D", "E", "R">>, <<"I", "N">>, <<"N", "O", "T">>, <<"E", "X", "I", "S", "T", "S">>}

table_context_keywords ==
  {<<"F", "R", "O", "M">>, <<"J", "O", "I", "N">>, <<"I", "N", "T", "O">>, <<"U", "P", "D", "A", "T", "E">>, <<"T", "A", "B", "L", "E">>, <<"D", "E", "L", "E", "T", "E">>, <<"I", "N", "S", "E", "R", "T">>}

operators ==
  {<<"=">>, <<"<">>, <<">">>, <<"<", "=">>, <<">", "=">>, <<"<", ">">>, <<"!", "=">>, <<"+">>, <<"-">>, <<"*">>, <<"/">>, <<"%">>,
   <<"L", "I", "K", "E">>, <<"B", "E", "T", "W", "E", "E", "N">>, <<"I", "S">>}

\* the characters of '.=><!+-*/%(), '
column_punctuation == Range(<<".", "=", ">", "<", "!", "+", "-", "*", "/", "%", "(", ")", ",", " ">>)

\* for token in reversed(tokens), from index i down: "table", "column", or
\* "none" when the loop ends without returning
RECURSIVE scan_tokens(_, _)
scan_tokens(tokens, i) ==
  IF i = 0 THEN "none"
  ELSE IF tokens[i] \in table_context_keywords THEN "table"
  ELSE IF tokens[i] \in column_context_keywords \/ tokens[i] \in operators THEN "column"
  ELSE scan_tokens(tokens, i - 1)

\* the text is_in_column_context tokenizes
stripped_text(text_before_cursor) ==
  remove_comments(remove_strings(text_before_cursor, TRUE))

\* is_in_column_context without the trailing-punctuation fallback
is_in_column_context_no_fallback(text_before_cursor) ==
  LET text == stripped_text(text_before_cursor)
      tokens == findall_words(upper(text))
      found == scan_tokens(tokens, Len(tokens))
  IN IF tokens = <<>> THEN FALSE
     ELSE found = "column"

is_in_column_context(text_before_cursor) ==
  LET text == stripped_text(text_before_cursor)
      tokens == findall_words(upper(text))
      found == scan_tokens(tokens, Len(tokens))
      st == strip(text)
  IN IF tokens = <<>> THEN FALSE
     ELSE IF found = "table" THEN FALSE
     ELSE IF found = "column" THEN TRUE
     ELSE st # <<>> /\ st[Len(st)] \in column_punctuation

\* ------------------------------------------------------------------------
\* BigQueryCompleter
\* ------------------------------------------------------------------------

keywords ==
  <<<<"S", "E", "L", "E", "C", "T">>,
    <<"F", "R", "O", "M">>,
    <<"W", "H", "E", "R", "E">>,
    <<"L", "I", "M", "I", "T">>,
    <<"O", "R", "D", "E", "R", " ", "B", "Y">>,
    <<"G", "R", "O", "U", "P", " ", "B", "Y">>,
    <<"J", "O", "I", "N">>,
    <<"O", "N">>,
    <<"I", "N", "S", "E", "R", "T">>,
    <<"U", "P", "D", "A", "T", "E">>,
    <<"D", "E", "L", "E", "T", "E">>,
    <<"C", "R", "E", "A", "T", "E">>,
    <<"D", "R", "O", "P">>,
    <<"A", "L", "T", "E", "R">>,
    <<"H", "E", "L", "P">>,
    <<"E", "X", "P", "O", "R", "T">>,
    <<"S", "C", "H", "E", "M", "A">>,
    <<"I", "N", "F", "O">>,
    <<"E", "X", "I", "T">>,
    <<"Q", "U", "I", "T">>>>

functions == <<<<"C", "O", "U", "N", "T">>,
             <<"S", "U", "M">>,
             <<"M", "I", "N">>,
             <<"M", "A", "X">>,
             <<"A", "V", "G">>>>

all_completions == keywords \o functions

table_command_tokens == {<<"F", "R", "O", "M">>, <<"J", "O", "I", "N">>, <<"S", "C", "H", "E", "M", "A">>, <<"I", "N", "F", "O">>, <<"D", "E", "T", "A", "I", "L", "S">>}

keyword_completions(word) ==
  LET kws == SelectSeq(all_completions, LAMBDA kw : startswith(upper(kw), upper(word)))
  IN Return([i \in DOMAIN kws |-> Completion(kws[i], -Len(word))])

\* the branch get_completions takes
\* the branches of get_completions with the table test before the dot test
context_of_table_first(text_before_cursor) ==
  LET word_before_cursor == get_word_before_cursor(text_before_cursor)
      last_token == get_last_token(text_before_cursor)
  IN IF upper(last_token) \in table_command_tokens THEN "table"
     ELSE IF contains(word_before_cursor, <<".">>) \/ endswith(word_before_cursor, <<".">>)
     THEN "partial"
     ELSE IF is_in_column_context(text_before_cursor) THEN "column"
     ELSE "keyword"

context_of(text_before_cursor) ==
  LET word_before_cursor == get_word_before_cursor(text_before_cursor)
      last_token == get_last_token(text_before_cursor)
  IN IF contains(word_before_cursor, <<".">>) \/ endswith(word_before_cursor, <<".">>)
     THEN "partial"
     ELSE IF upper(last_token) \in table_command_tokens THEN "table"
     ELSE IF is_in_column_context(text_before_cursor) THEN "column"
     ELSE "keyword"

Tagged(context, r) == [context |-> context, exc |-> r.exc, val |-> r.val]

\* The possible outcomes of draining get_completions: the branch taken, the
\* candidates in the order yielded, and whether an exception escaped.
get_completions(client, projects, text_before_cursor, text) ==
  LET word_before_cursor == get_word_before_cursor(text_before_cursor)
      context == context_of(text_before_cursor)
  IN IF context = "partial"
     THEN {Tagged(context, get_partial_identifier_completions(client, word_before_cursor))}
     ELSE IF context = "table"
     THEN {Tagged(context, get_table_completions(client, projects, word_before_cursor))}
     ELSE IF context = "column"
     THEN {Tagged(context, r) : r \in get_column_completions(client, word_before_cursor, text)}
     ELSE {Tagged(context, keyword_completions(word_before_cursor))}

\* ------------------------------------------------------------------------
\* Query rewriting and validation (bq_helper.py, used by the main loop)
\* ------------------------------------------------------------------------

\* field.field_type of the columns of a table, in schema order
CatalogColumnTypes(project_id, dataset_id, table_id) ==
  IF project_id = <<"p">> /\ dataset_id = <<"d">> /\ table_id = <<"t">>
  THEN <<<<"S", "T", "R", "I", "N", "G">>, <<"T", "I", "M", "E", "S", "T", "A", "M", "P">>>> ELSE <<>>

\* [^\s,;]+ at i: the first index at or after i that holds whitespace, a
\* comma or a semicolon
RECURSIVE NameEnd(_, _)
NameEnd(s, i) ==
  IF i <= Len(s) /\ ~IsSpace(s[i]) /\ s[i] \notin {",", ";"} THEN NameEnd(s, i + 1) ELSE i

\* re.compile(r'\bFROM\s+([^\s,;]+)', re.IGNORECASE).findall(query): the
\* captured names of the leftmost non-overlapping matches
RECURSIVE from_names(_, _)
from_names(s, i) ==
  IF i > Len(s) THEN <<>>
  ELSE LET p == SkipSpaces(s, i + 4)
           e == NameEnd(s, p)
       IN IF /\ (i = 1 \/ ~IsWordChar(s[i - 1]))
             /\ upper(SubSeq(s, i, Min(i + 3, Len(s)))) = <<"F", "R", "O", "M">>
             /\ p > i + 4
             /\ e > p
          THEN <<SubSeq(s, p, e - 1)>> \o from_names(s, e)
          ELSE from_names(s, i + 1)

\* str.strip(';')
RECURSIVE strip_semicolons(_)
strip_semicolons(s) ==
  IF s # <<>> /\ s[1] = ";" THEN strip_semicolons(Tail(s))
  ELSE IF s # <<>> /\ s[Len(s)] = ";" THEN strip_semicolons(SubSeq(s, 1, Len(s) - 1))
  ELSE s

\* the table name, None being the empty str (the caller tests truthiness)
extract_table_name(query) ==
  LET matches == from_names(query, 1)
  IN IF matches # <<>>
     THEN remove_char(strip_semicolons(strip(matches[Len(matches)])), BACKTICK)
     ELSE <<>>

\* The dict of column name -> type, as the list of its names and the list
\* of their types; {} when the catalog call raises.
get_columns_with_types(client, project_id, dataset_id, table_id) ==
  LET r == get_table_schema(client, remove_char(project_id, BACKTICK),
                            remove_char(dataset_id, BACKTICK),
                            remove_char(table_id, BACKTICK))
  IN IF r.raises THEN [names |-> <<>>, types |-> <<>>]
     ELSE [names |-> r.items,
           types |-> CatalogColumnTypes(remove_char(project_id, BACKTICK),
                                        remove_char(dataset_id, BACKTICK),
                                        remove_char(table_id, BACKTICK))]

TimestampTypes == {<<"T", "I", "M", "E", "S", "T", "A", "M", "P">>, <<"D", "A", "T", "E", "T", "I", "M", "E">>, <<"D", "A", "T", "E">>}

\* the first column of a timestamp type, None being the empty str
find_timestamp_column(query, client) ==
  LET table_full_name == extract_table_name(query)
      parts == CleanAll(split(table_full_name, "."))
      columns == get_columns_with_types(client, parts[1], parts[2], parts[3])
      hits == {i \in DOMAIN columns.names : upper(columns.types[i]) \in TimestampTypes}
  IN IF table_full_name # <<>> /\ Len(parts) = 3 /\ hits # {}
     THEN columns.names[CHOOSE i \in hits : \A j \in hits : i <= j]
     ELSE <<>>

\* bq_helper.py imports neither datetime nor timedelta: building the WHERE
\* clause raises NameError, so the function returns the query unchanged or
\* raises.
add_default_where_clause(query, client) ==
  IF ~contains(lower(query), <<"w", "h", "e", "r", "e">>) /\ find_timestamp_column(query, client) # <<>>
  THEN Raise
  ELSE Return(query)

add_limit_clause(query) ==
  IF ~contains(lower(query), <<"l", "i", "m", "i", "t">>) THEN query \o <<" ", "L", "I", "M", "I", "T", " ", "1", "0", "0">> ELSE query

\* ------------------------------------------------------------------------
\* The completer in a prompt session
\* ------------------------------------------------------------------------

\* the most keys (or pasted snippets) typed into one buffer
MaxKeys == 3

\* the most entries a failing listing delivers before it raises
MaxFailAfter == 1

\* what one key press, or one paste, inserts
Keys ==
  {<<"S", "E", "L", "E", "C", "T">>, <<"F", "R", "O", "M">>, <<"I", "N", "T", "O">>, <<" ">>, <<".">>, <<",">>, <<BACKTICK>>, <<"-", "-">>, <<"t">>, <<"p">>}

\* the text after the cursor (the prompt is multiline: the cursor may stand
\* before a part of the statement that is already written)
Rests ==
  {<<>>,
   <<" ", "F", "R", "O", "M", " ", BACKTICK, "p", BACKTICK, ".", BACKTICK, "d", BACKTICK, ".", BACKTICK, "t", BACKTICK, " ", "A", "S", " ", "t">>,
   <<" ", "F", "R", "O", "M", " ", BACKTICK, "p", BACKTICK, ".", BACKTICK, "d", BACKTICK, ".", BACKTICK, "t", BACKTICK, " ", "t">>,
   <<"\n", "-", "-", " ", "F", "R", "O", "M", " ", BACKTICK, "p", BACKTICK, ".", BACKTICK, "d", BACKTICK, ".", BACKTICK, "t", BACKTICK>>}

Clients == {Healthy} \cup {Failing(n) : n \in 0..MaxFailAfter}

\* no completion was asked for since the buffer last changed
NoResult == [asked |-> FALSE]

\* the most statements read at the prompt in one run of main
MaxPrompts == 3

\* what the user may enter at the bq> prompt
Statements ==
  {<<>>, <<"e", "x", "i", "t">>, <<"h", "e", "l", "p">>, <<"e", "x", "p", "o", "r", "t", " ", "c", "s", "v">>, <<"s", "c", "h", "e", "m", "a", " ", "p", ".", "d", ".", "t">>, <<"i", "n", "f", "o">>,
   <<"s", "e", "l", "e", "c", "t", " ", "1", ";">>,
   <<"s", "e", "l", "e", "c", "t", " ", "*", " ", "f", "r", "o", "m", " ", BACKTICK, "p", BACKTICK, ".", BACKTICK, "d", BACKTICK, ".", BACKTICK, "t", BACKTICK, ";">>,
   <<"s", "e", "l", "e", "c", "t", " ", "n", "a", " ", "f", "r", "o", "m", " ", "p", ".", "d", ".", "t", " ", "w", "h", "e", "r", "e", " ", "n", "a", " ", "=", " ", "1", " ", "l", "i", "m", "i", "t", " ", "5">>,
   <<"s", "e", "l", "e", "c", "t", " ", "l", "i", "m", "i", "t", "e", "d", " ", "f", "r", "o", "m", " ", "t">>,
   <<"d", "e", "l", "e", "t", "e", " ", "f", "r", "o", "m", " ", "t">>}

\* what the user may answer to 'Execute Query?'
Answers == {<<>>, <<"c", "a", "n", "c", "e", "l">>, <<" ", "C", "a", "n", "c", "e", "l", " ">>, <<"n", "o">>}

VARIABLES
  projects,        \* BigQueryCompleter.projects
  before,          \* document.text_before_cursor
  after,           \* document.text is before \o after
  keys,            \* the number of keys typed
  result,          \* the outcome of the last get_completions on this document
  pc,              \* where main stands: "prompt", "validate", "confirm", "execute", "done"
  prompts,         \* the number of statements read
  user_input,      \* main's user_input
  modified_query,  \* main's modified_query
  valid,           \* main's valid
  confirmation,    \* main's confirmation
  validated,       \* the query validate_query accepted since the last prompt
  executed,        \* the queries passed to client.query without dry_run
  shown,           \* what the iteration last printed
  scan             \* a text with what the two scanners made of it

completer_vars == <<projects, before, after, keys, result>>

main_vars ==
  <<pc, prompts, user_input, modified_query, valid, confirmation, validated, executed, shown>>

vars == <<completer_vars, main_vars, scan>>

\* a text no scanner has read yet
NewScan(t) ==
  [text |-> t, col |-> <<t>>, tok |-> <<t>>, asked |-> FALSE,
   last_token |-> <<>>, tokens |-> <<>>]

NotValidated == [ok |-> FALSE, query |-> <<>>]

\* main before its first prompt
MainStart ==
  /\ pc = "prompt"
  /\ prompts = 0
  /\ user_input = <<>>
  /\ modified_query = <<>>
  /\ valid = FALSE
  /\ confirmation = <<>>
  /\ validated = NotValidated
  /\ executed = <<>>
  /\ shown = "welcome"

\* BigQueryCompleter(client): the project list is fetched once
Init ==
  /\ projects \in {get_projects(c).val : c \in Clients}
  /\ before = <<>>
  /\ after \in Rests
  /\ keys = 0
  /\ result = NoResult
  /\ MainStart
  /\ scan = NewScan(<<>>)

\* A key is typed at the cursor.
Type(k) ==
  /\ keys < MaxKeys
  /\ before' = before \o k
  /\ keys' = keys + 1
  /\ result' = NoResult
  /\ UNCHANGED <<projects, after, main_vars, scan>>

\* The front end drains get_completions(document, complete_event) once after
\* a change of the buffer, the catalog being in the state client.
Complete(client) ==
  /\ result = NoResult
  /\ \E o \in get_completions(client, projects, before, before \o after) :
        result' = [asked |-> TRUE, client |-> client, context |-> o.context,
                   exc |-> o.exc, val |-> o.val]
  /\ UNCHANGED <<projects, before, after, keys, main_vars, scan>>

Next ==
  \/ \E k \in Keys : Type(k)
  \/ \E c \in Clients : Complete(c)

Spec == Init /\ [][Next]_vars

\* ------------------------------------------------------------------------
\* The main loop of bqcli.py
\* ------------------------------------------------------------------------

\* str.rstrip(';')
RECURSIVE rstrip_semicolons(_)
rstrip_semicolons(s) ==
  IF s # <<>> /\ s[Len(s)] = ";" THEN rstrip_semicolons(SubSeq(s, 1, Len(s) - 1)) ELSE s

\* the command words that end an iteration at once, and what each prints
CommandShown(command) ==
  IF command = <<"h", "e", "l", "p">> THEN "help"
  ELSE IF startswith(command, <<"e", "x", "p", "o", "r", "t">>) THEN "export"
  ELSE IF startswith(command, <<"s", "c", "h", "e", "m", "a">>) THEN "schema"
  ELSE IF startswith(command, <<"i", "n", "f", "o">>) \/ startswith(command, <<"d", "e", "t", "a", "i", "l", "s">>) THEN "info"
  ELSE "none"

\* user_input after 'Remove the trailing semicolon if present'
without_semicolon(input) ==
  IF endswith(strip(input), <<";">>) THEN rstrip_semicolons(strip(input)) ELSE input

\* 'Add default WHERE clause and LIMIT': the modified query, or the
\* exception add_default_where_clause raised
rewrite(input, client) ==
  IF startswith(lower(strip(input)), <<"s", "e", "l", "e", "c", "t">>)
  THEN LET w == add_default_where_clause(input, client)
       IN IF w.exc THEN Raise ELSE Return(add_limit_clause(w.val))
  ELSE Return(input)

\* validate_query(client, query), the dry run raising or not
validate_query(dry_run_raises) == ~dry_run_raises

\* One statement is read at the prompt and handled up to the call of
\* validate_query; client is the catalog as the rewriting sees it.
Prompt(input, client) ==
  LET command == lower(strip(input))
      statement == without_semicolon(input)
      rewritten == rewrite(statement, client)
  IN /\ pc = "prompt"
     /\ prompts < MaxPrompts
     /\ prompts' = prompts + 1
     /\ user_input' = IF strip(input) = <<>> \/ command \in {<<"e", "x", "i", "t">>, <<"q", "u", "i", "t">>}
                         \/ CommandShown(command) # "none"
                      THEN input ELSE statement
     /\ validated' = NotValidated
     /\ IF strip(input) = <<>>
        THEN pc' = "prompt" /\ shown' = "nothing" /\ UNCHANGED modified_query
        ELSE IF command \in {<<"e", "x", "i", "t">>, <<"q", "u", "i", "t">>}
        THEN pc' = "done" /\ shown' = "exiting" /\ UNCHANGED modified_query
        ELSE IF CommandShown(command) # "none"
        THEN pc' = "prompt" /\ shown' = CommandShown(command) /\ UNCHANGED modified_query
        ELSE IF rewritten.exc
        THEN pc' = "prompt" /\ shown' = "error" /\ UNCHANGED modified_query
        ELSE pc' = "validate" /\ shown' = "review" /\ modified_query' = rewritten.val
     /\ UNCHANGED <<valid, confirmation, executed, completer_vars, scan>>

\* the validation step without the continue of a failed validation
Validate_without_continue(dry_run_raises) ==
  /\ pc = "validate"
  /\ valid' = validate_query(dry_run_raises)
  /\ pc' = "confirm"
  /\ shown' = IF valid' THEN "looks ok" ELSE "invalid"
  /\ validated' = IF valid' THEN [ok |-> TRUE, query |-> modified_query] ELSE NotValidated
  /\ UNCHANGED <<prompts, user_input, modified_query, confirmation, executed, completer_vars, scan>>

\* valid, message = validate_query(client, modified_query)
Validate(dry_run_raises) ==
  /\ pc = "validate"
  /\ valid' = validate_query(dry_run_raises)
  /\ IF valid'
     THEN /\ pc' = "confirm"
          /\ shown' = "looks ok"
          /\ validated' = [ok |-> TRUE, query |-> modified_query]
     ELSE /\ pc' = "prompt"
          /\ shown' = "invalid"
          /\ validated' = NotValidated
  /\ UNCHANGED <<prompts, user_input, modified_query, confirmation, executed, completer_vars, scan>>

\* confirmation = input(...).strip().lower()
Confirm(answer) ==
  /\ pc = "confirm"
  /\ confirmation' = lower(strip(answer))
  /\ IF confirmation' = <<"c", "a", "n", "c", "e", "l">>
     THEN pc' = "prompt" /\ shown' = "cancelled"
     ELSE pc' = "execute" /\ shown' = "running"
  /\ UNCHANGED <<prompts, user_input, modified_query, valid, validated, executed, completer_vars, scan>>

\* query_job = client.query(modified_query); results = query_job.result()
Execute(raises) ==
  /\ pc = "execute"
  /\ executed' = Append(executed, modified_query)
  /\ shown' = IF raises THEN "error" ELSE "results"
  /\ pc' = "prompt"
  /\ UNCHANGED <<prompts, user_input, modified_query, valid, confirmation, validated, completer_vars, scan>>

\* except Exception around a read: input() or session.prompt() raises (end
\* of input)
ReadFails ==
  /\ pc \in {"prompt", "confirm"}
  /\ shown # "error"
  /\ shown' = "error"
  /\ pc' = "prompt"
  /\ UNCHANGED <<prompts, user_input, modified_query, valid, confirmation, validated, executed, completer_vars, scan>>

\* except KeyboardInterrupt: sys.exit(0)
Interrupt ==
  /\ pc # "done"
  /\ pc' = "done"
  /\ shown' = "exiting"
  /\ UNCHANGED <<prompts, user_input, modified_query, valid, confirmation, validated, executed, completer_vars, scan>>

\* main() after the completer is built from a healthy catalog
InitMain ==
  /\ projects = get_projects(Healthy).val
  /\ before = <<>>
  /\ after = <<>>
  /\ keys = 0
  /\ result = NoResult
  /\ MainStart
  /\ scan = NewScan(<<>>)

NextMain ==
  \/ \E input \in Statements, c \in {Healthy, Failing(0)} : Prompt(input, c)
  \/ \E r \in BOOLEAN : Validate(r)
  \/ \E a \in Answers : Confirm(a)
  \/ \E r \in BOOLEAN : Execute(r)
  \/ ReadFails
  \/ Interrupt

SpecMain == InitMain /\ [][NextMain]_vars

\* ------------------------------------------------------------------------
\* The two scanners on a text
\* ------------------------------------------------------------------------

\* the longest text drawn from ScanChars
MaxScanLen == 5

\* a dash, a quote, a word character, a backslash and a line break
ScanChars == {"-", "'", "x", "\\", "\n"}

\* texts with the second quote character, longer than MaxScanLen
ScanSamples ==
  {<<"'", "\\", "\"", "x", "\"", "\\", "'">>, <<"S", "E", "L", "E", "C", "T", " ", "'", "a", " ", "-", "-", " ", "b", "'", " ", "F", "R", "O", "M">>, <<"S", "E", "L", "E", "C", "T", " ", "\"", "a", "\\", "\n", "b", "\"", " ", "x">>}

ScanTexts == UNION {[1..n -> ScanChars] : n \in 0..MaxScanLen} \cup ScanSamples

\* a text before any scanner reads it
InitScan ==
  /\ projects = get_projects(Healthy).val
  /\ before = <<>>
  /\ after = <<>>
  /\ keys = 0
  /\ result = NoResult
  /\ MainStart
  /\ scan \in {NewScan(t) : t \in ScanTexts}

\* The stripping of is_in_column_context (strings, then comments) is applied
\* to the text, and once more to what it left.
StripForColumns ==
  /\ Len(scan.col) < 3
  /\ scan' = [scan EXCEPT !.col = Append(@, stripped_text(@[Len(@)]))]
  /\ UNCHANGED <<completer_vars, main_vars>>

\* The stripping of get_last_token (comments, then strings) is applied to the
\* text, and once more to what it left.
StripForLastToken ==
  /\ Len(scan.tok) < 3
  /\ scan' = [scan EXCEPT !.tok = Append(@, last_token_text(@[Len(@)]))]
  /\ UNCHANGED <<completer_vars, main_vars>>

\* One request reads the text with both scanners: last_token of
\* get_completions and tokens of is_in_column_context.
Tokenize ==
  /\ ~scan.asked
  /\ scan' = [scan EXCEPT !.asked = TRUE,
                          !.last_token = get_last_token(scan.text),
                          !.tokens = findall_words(upper(stripped_text(scan.text)))]
  /\ UNCHANGED <<completer_vars, main_vars>>

NextScan ==
  \/ StripForColumns
  \/ StripForLastToken
  \/ Tokenize

SpecScan == InitScan /\ [][NextScan]_vars

\* ------------------------------------------------------------------------
\* Vocabulary of the properties
\* ------------------------------------------------------------------------

\* the partially typed word of the current document
word == get_word_before_cursor(before)

\* document.text
text == before \o after

\* str.rstrip
rstrip(s) ==
  LET keep == {i \in DOMAIN s : ~IsSpace(s[i])}
  IN IF keep = {} THEN <<>> ELSE SubSeq(s, 1, CHOOSE i \in keep : \A j \in keep : i >= j)

\* the last character that is no whitespace, "" when there is none
LastNonSpace(s) == IF rstrip(s) = <<>> THEN "" ELSE rstrip(s)[Len(rstrip(s))]

\* the table-introducing keywords as the specification lists them
SpecTableKeywords ==
  {<<"F", "R", "O", "M">>, <<"J", "O", "I", "N">>, <<"I", "N", "T", "O">>, <<"U", "P", "D", "A", "T", "E">>, <<"T", "A", "B", "L", "E">>, <<"D", "E", "L", "E", "T", "E">>, <<"I", "N", "S", "E", "R", "T">>,
   <<"S", "C", "H", "E", "M", "A">>, <<"I", "N", "F", "O">>, <<"D", "E", "T", "A", "I", "L", "S">>}

\* the column-introducing signals that are word tokens, as the
\* specification lists them
SpecColumnKeywords ==
  {<<"S", "E", "L", "E", "C", "T">>, <<"W", "H", "E", "R", "E">>, <<"A", "N", "D">>, <<"O", "R">>, <<"O", "N">>, <<"B", "Y">>, <<"H", "A", "V", "I", "N", "G">>, <<"G", "R", "O", "U", "P">>,
   <<"O", "R", "D", "E", "R">>, <<"I", "N">>, <<"N", "O", "T">>, <<"E", "X", "I", "S", "T", "S">>, <<"V", "A", "L", "U", "E", "S">>, <<"S", "E", "T">>,
   <<"L", "I", "K", "E">>, <<"B", "E", "T", "W", "E", "E", "N">>, <<"I", "S">>}

\* s ends with a table-introducing keyword, a word of its own, followed by
\* whitespace
EndsWithTableKeyword(s) ==
  LET t == rstrip(s)
  IN /\ Len(t) < Len(s)
     /\ \E kw \in SpecTableKeywords :
          /\ endswith(upper(t), kw)
          /\ Len(t) > Len(kw) => ~IsWordChar(t[Len(t) - Len(kw)])

\* the word tokens either scanner of a request reads from s, upper-cased
TokensRead(s) ==
  Range(findall_words(upper(stripped_text(s))))
  \cup Range(findall_words(upper(remove_strings(remove_comments(s), FALSE))))

\* no table- or column-introducing keyword is among the tokens read from s
NoKeywordPrecedes(s) ==
  \A tok \in TokensRead(s) : tok \notin SpecTableKeywords \cup SpecColumnKeywords

\* the texts of the candidates, in the order yielded
Texts(val) == [i \in DOMAIN val |-> val[i].text]

\* the outcome of the last request, as a generator returns it
Outcome == [exc |-> result.exc, val |-> result.val]

\* ------------------------------------------------------------------------
\* C1
\* ------------------------------------------------------------------------

\* C1: whenever the partial word contains a '.', get_completions takes the
\* dotted-partial branch and yields exactly what
\* get_partial_identifier_completions yields for that word, whatever the
\* tokens before it.
C1_DottedWordIsPartial ==
  (result.asked /\ contains(word, <<".">>)) =>
     /\ result.context = "partial"
     /\ Outcome = get_partial_identifier_completions(result.client, word)

\* C1 witness: a dotted word was completed, with candidates
C1_Witness ==
  /\ result.asked
  /\ contains(word, <<".">>)
  /\ result.val # <<>>

\* ------------------------------------------------------------------------
\* C2
\* ------------------------------------------------------------------------

\* C2: a text without dots that ends with a table-introducing keyword (FROM,
\* JOIN, INTO, UPDATE, TABLE, DELETE, INSERT, SCHEMA, INFO, DETAILS) and
\* whitespace is classified table-context: the candidates are those of
\* get_table_completions.
C2_TableKeywordIsTableContext ==
  (result.asked /\ ~contains(before, <<".">>) /\ EndsWithTableKeyword(before)) =>
     /\ result.context = "table"
     /\ Outcome = get_table_completions(result.client, projects, word)

\* ------------------------------------------------------------------------
\* C3
\* ------------------------------------------------------------------------

\* the partial word without its leading backtick
Segment(w) == IF w # <<>> /\ w[1] = BACKTICK THEN Tail(w) ELSE w

\* a table-introducing keyword, whitespace, and a dot-free non-empty partial
\* word, which may open with a backtick
KeywordThenPartialWord(s) ==
  LET w == get_word_before_cursor(s)
  IN /\ Segment(w) # <<>>
     /\ \A i \in DOMAIN Segment(w) : IsWordChar(Segment(w)[i])
     /\ EndsWithTableKeyword(SubSeq(s, 1, Len(s) - Len(w)))

\* C3: after a table-introducing keyword, whitespace and a dot-free partial
\* word, the request is table-context and the candidates are exactly the
\* known projects that start with the word (its backtick stripped), each in
\* backticks.
C3_PartialWordCompletesProjects ==
  (result.asked /\ KeywordThenPartialWord(before)) =>
     /\ result.context = "table"
     /\ Texts(result.val) =
          LET ps == SelectSeq(projects, LAMBDA p : startswith(p, Segment(word)))
          IN [i \in DOMAIN ps |-> Quoted(ps[i])]

\* ------------------------------------------------------------------------
\* C4
\* ------------------------------------------------------------------------

CommaAfterToken(s) ==
  /\ LastNonSpace(stripped_text(s)) = ","
  /\ findall_words(stripped_text(s)) # <<>>
  /\ NoKeywordPrecedes(s)
  /\ ~contains(get_word_before_cursor(s), <<".">>)

ListsOnRequest ==
  \/ result.context = "partial"
  \/ result.context = "column"
  \/ result.context = "table" /\ strip(remove_char(word, BACKTICK)) # <<>>

HealthyVal ==
  (CHOOSE o \in get_completions(Healthy, projects, before, text) : TRUE).val

FullBindings(s) ==
  {b \in Range(extract_table_aliases(s)) : Len(split(b.table_name, ".")) = 3}

\* the columns the catalog holds for a binding, each with the binding's
\* alias and a dot before it when there is an alias
BoundColumns(b) ==
  LET parts == CleanAll(split(b.table_name, "."))
  IN {(IF b.alias # <<>> THEN b.alias \o <<".">> ELSE <<>>) \o c :
        c \in Range(CatalogColumns(parts[1], parts[2], parts[3]))}

\* w is alias-qualified by an alias the buffer binds
AliasQualified(w, s) ==
  \E b \in FullBindings(s) : b.alias # <<>> /\ startswith(w, b.alias \o <<".">>)

\* C6 as claimed: for an alias-qualified partial word (t.na) whose alias the
\* buffer binds to a fully qualified table, the request is column-context
\* and the candidates are exactly the bound table's columns, each prefixed
\* with the alias and a dot, that start with the partial word.
C6_AliasQualifiedWordCompletesColumns ==
  (result.asked /\ ~result.client.fails /\ AliasQualified(word, text)) =>
     /\ result.context = "column"
     /\ Range(Texts(result.val)) =
          {c \in UNION {BoundColumns(b) : b \in {x \in FullBindings(text) :
                          x.alias # <<>> /\ startswith(word, x.alias \o <<".">>)}} :
             startswith(c, word)}

\* C6 amended: in a column-context request (the partial word then has no
\* dot, e.g. t) on a buffer that binds an alias, the candidates are exactly
\* the columns of the bound tables, each prefixed with its alias and a dot
\* (unprefixed for a table bound without alias), that start with the
\* partial word; an alias-qualified word with a dot (t.na) is classified
\* dotted-partial and gets no column candidate.
C6_AliasPrefixCompletesColumns ==
  /\ (result.asked /\ ~result.client.fails /\ result.context = "column"
      /\ \E b \in FullBindings(text) : b.alias # <<>>) =>
        Range(Texts(result.val)) =
          {c \in UNION {BoundColumns(b) : b \in FullBindings(text)} : startswith(c, word)}
  /\ (result.asked /\ AliasQualified(word, text)) =>
        /\ result.context = "partial"
        /\ Range(Texts(result.val)) \cap UNION {BoundColumns(b) : b \in FullBindings(text)} = {}

\* C6 witness: "SELECT t" was completed on a buffer that binds t, and t.na
\* is a candidate
C6_Witness ==
  /\ result.asked
  /\ result.context = "column"
  /\ word = <<"t">>
  /\ \E i \in DOMAIN result.val : result.val[i].text = <<"t", ".", "n", "a">>

\* ------------------------------------------------------------------------
\* C7
\* ------------------------------------------------------------------------

\* the word after whitespace at index e, empty when there is none
WordAfter(s, e) ==
  LET a == SkipSpaces(s, e)
  IN IF a > e /\ WordEnd(s, a) > a THEN SubSeq(s, a, WordEnd(s, a) - 1) ELSE <<>>

\* the alias written after a path that ends before index e, with or
\* without AS
WrittenAlias(s, e) ==
  LET w == WordAfter(s, e)
  IN IF upper(w) = <<"A", "S">> THEN WordAfter(s, SkipSpaces(s, e) + 2) ELSE w

InLineComment(s, pos) ==
  \E j \in 1..(pos - 1) : At(s, j, <<"-", "-">>) /\ EndOfLine(s, j) > pos

\* index pos is inside a string literal ('...' or "..."), the literals
\* being those the scanner removes
RECURSIVE InStringLiteralFrom(_, _, _)
InStringLiteralFrom(s, i, pos) ==
  IF i >= pos THEN FALSE
  ELSE LET e == IF s[i] \in QuoteSet THEN string_end(s, i + 1, s[i], TRUE) ELSE 0
       IN IF e = 0 THEN InStringLiteralFrom(s, i + 1, pos)
          ELSE IF s[i] # BACKTICK /\ pos < e THEN TRUE
          ELSE InStringLiteralFrom(s, e + 1, pos)

InStringLiteral(s, pos) == InStringLiteralFrom(s, 1, pos)

\* C8: every binding the alias resolver returns comes from a FROM or JOIN
\* outside string literals and line comments, so a column-context request
\* never fetches the columns of a table named only in a string or comment.
C8_NoBindingFromCommentOrString ==
  (result.asked /\ result.context = "column") =>
     \A i \in DOMAIN alias_matches(text) :
        /\ ~InLineComment(text, alias_matches(text)[i].start)
        /\ ~InStringLiteral(text, alias_matches(text)[i].start)

\* ------------------------------------------------------------------------
\* C9
\* ------------------------------------------------------------------------

\* C9: every candidate of every request replaces the partially typed word:
\* its start_position is minus the length of the word before the cursor.
C9_SpanIsWordLength ==
  result.asked =>
     \A i \in DOMAIN result.val : result.val[i].start_position = -Len(word)

\* C9 witness: a table-context request on a non-empty word had candidates
C9_Witness ==
  /\ result.asked
  /\ result.context = "table"
  /\ word # <<>>
  /\ result.val # <<>>

\* ------------------------------------------------------------------------
\* C10
\* ------------------------------------------------------------------------

\* C10: a query is passed to client.query for real execution only from the
\* execute step, after validate_query returned valid for that same modified
\* query since the last prompt and the answer was not 'cancel'; a failed
\* validation and a cancel execute nothing and lead back to the prompt.
C10_ExecuteOnlyValidated ==
  [][/\ executed' # executed =>
          /\ pc = "execute"
          /\ executed' = Append(executed, modified_query)
          /\ valid
          /\ validated = [ok |-> TRUE, query |-> modified_query]
          /\ confirmation # <<"c", "a", "n", "c", "e", "l">>
     /\ (pc = "validate" /\ ~valid' /\ pc' # "done") =>
          pc' = "prompt" /\ executed' = executed
     /\ (pc = "confirm" /\ confirmation' = <<"c", "a", "n", "c", "e", "l">> /\ pc' # "done") =>
          pc' = "prompt" /\ executed' = executed
     /\ pc' = "execute" => validated'.ok /\ valid' /\ confirmation' # <<"c", "a", "n", "c", "e", "l">>
    ]_vars

\* C10 witness: a rewritten SELECT was validated, confirmed and executed
C10_Witness ==
  /\ executed # <<>>
  /\ executed[Len(executed)] = <<"s", "e", "l", "e", "c", "t", " ", "1", " ", "L", "I", "M", "I", "T", " ", "1", "0", "0">>
  /\ shown = "results"
\* ------------------------------------------------------------------------
\* C11
\* ------------------------------------------------------------------------

\* the number of LIMIT words of a query
LimitCount(q) ==
  Cardinality({i \in DOMAIN findall_words(upper(q)) : findall_words(upper(q))[i] = <<"L", "I", "M", "I", "T">>})

\* the query has a LIMIT clause
HasLimitClause(q) == LimitCount(q) > 0

\* main passed a statement that starts with 'select' on to validation
SelectUnderWay ==
  /\ pc \in {"validate", "confirm", "execute"}
  /\ startswith(lower(strip(user_input)), <<"s", "e", "l", "e", "c", "t">>)

\* C11: every statement that starts with 'select' and reaches validation
\* carries a row limit: ' LIMIT 100' is appended when the user wrote no
\* LIMIT clause, and a query that has one is left with the clause it has.
C11_SelectCarriesLimit ==
  SelectUnderWay =>
     /\ HasLimitClause(modified_query)
     /\ ~HasLimitClause(user_input) => endswith(modified_query, <<" ", "L", "I", "M", "I", "T", " ", "1", "0", "0">>)
     /\ HasLimitClause(user_input) => LimitCount(modified_query) = LimitCount(user_input)
\* ------------------------------------------------------------------------
\* C12
\* ------------------------------------------------------------------------

\* C12: stripping is idempotent: the stripping of is_in_column_context and
\* the stripping of get_last_token, applied to a text they have already
\* stripped, change nothing.
C12_StrippingIsIdempotent ==
  /\ Len(scan.col) = 3 => scan.col[3] = scan.col[2]
  /\ Len(scan.tok) = 3 => scan.tok[3] = scan.tok[2]

\* ------------------------------------------------------------------------
\* C13
\* ------------------------------------------------------------------------

\* C13: the two scanners of a request agree: the last token of
\* get_last_token equals, case-insensitively, the last token that
\* is_in_column_context reads from the same text, and both are empty
\* together.
C13_ScannersAgree ==
  scan.asked =>
     upper(scan.last_token) =
        IF scan.tokens = <<>> THEN <<>> ELSE scan.tokens[Len(scan.tokens)]
====
